---- MODULE Spec2Model ----
(***************************************************************************)
(* A model of mockaso: the stub registry of Server, the matcher chain of a *)
(* stub, and the request handler installed by Server.newTestServer.        *)
(*                                                                         *)
(* Strings that the code takes apart (URLs, paths, templates, parameter    *)
(* values) are sequences of one-character strings; strings that the code   *)
(* only compares (the HTTP method) are TLA+ strings.                       *)
(***************************************************************************)
EXTENDS Integers, Sequences, FiniteSets, TLC

\* ------------------------------------------------------------------ bounds

\* Longest registry the model builds.
MaxStubs == 2
\* Most Match rules appended to one stub.
MaxRules == 1
\* Stub objects ever allocated (ids stand for the *stub pointers).
MaxIds == 3
\* Request handlers (goroutines) that may run at the same time.
NumHandlers == 2
\* Stubs a test registers while requests are already being sent.
MaxSetupStubs == 1
\* Most rules handed to one Respond call.
MaxCall == 2

\* ------------------------------------------------------------------ strings

Str_api == <<"/", "a", "p", "i">>
Str_users == <<"/", "u", "s", "e", "r", "s">>
Str_api_users == Str_api \o Str_users
Str_api_users_slash == Str_api_users \o <<"/">>
Str_john_doe == <<"j", "o", "h", "n", "-", "d", "o", "e">>
Str_42 == <<"4", "2">>
Str_7 == <<"7">>
Str_id == <<"i", "d">>
Str_page1 == <<"p", "a", "g", "e", "=", "1">>
Str_page2 == <<"p", "a", "g", "e", "=", "2">>

\* strings.HasSuffix
HasSuffix(s, suffix) ==
  /\ Len(s) >= Len(suffix)
  /\ SubSeq(s, Len(s) - Len(suffix) + 1, Len(s)) = suffix

\* strings.TrimSuffix: s without the suffix when s ends with it, else s.
TrimSuffix(s, suffix) ==
  IF HasSuffix(s, suffix) THEN SubSeq(s, 1, Len(s) - Len(suffix)) ELSE s

\* ------------------------------------------------------------------ requests

\* The parts of *url.URL the matchers read.  A request-target in origin form
\* has no scheme and no host.
MkURL(path, rawQuery, forceQuery) ==
  [Path |-> path, RawQuery |-> rawQuery, ForceQuery |-> forceQuery]

\* (*url.URL).String() for such a URL: the path, then "?" and the raw query
\* when there is a query or the target ended in a bare "?".
URLString(u) ==
  u.Path \o (IF u.ForceQuery \/ u.RawQuery # <<>> THEN <<"?">> \o u.RawQuery ELSE <<>>)

\* A request without a body (http.NoBody): Body is what is left to read of r.Body.
MkRequest(method, url) == [Method |-> method, URL |-> url, Body |-> <<>>]

\* http.NewRequest(method, url, strings.NewReader(body))
MkRequestWithBody(method, url, body) == [MkRequest(method, url) EXCEPT !.Body = body]

NoRequest == MkRequest("", MkURL(<<>>, <<>>, FALSE))

\* ------------------------------------------------------------------ patterns

\* The characters \w of the placeholder expression `\{(\w+)}`.
WordChars ==
  {"a", "b", "c", "d", "e", "f", "g", "h", "i", "j", "k", "l", "m", "n", "o", "p",
   "q", "r", "s", "t", "u", "v", "w", "x", "y", "z", "_",
   "0", "1", "2", "3", "4", "5", "6", "7", "8", "9"}

\* The characters the capture class [^/?&] leaves out.
GroupStops == {"/", "?", "&"}

\* One element of a compiled expression: a literal character (group = <<>>)
\* or a capture group (?P<name>[^/?&]+).
ReLit(c) == [lit |-> c, group |-> <<>>]
ReGroup(name) == [lit |-> "", group |-> name]

\* Length of the run of \w characters of tpl that starts at position i.
RECURSIVE WordRun(_, _)
WordRun(tpl, i) ==
  IF i <= Len(tpl) /\ tpl[i] \in WordChars THEN 1 + WordRun(tpl, i + 1) ELSE 0

\* convertPatternToRegex, from position i on: `?`, `&` and `=` were escaped by
\* escapeURLPattern and match themselves, {name} becomes a capture group, every
\* other character of the templates used here matches itself.
RECURSIVE convertFrom(_, _)
convertFrom(tpl, i) ==
  IF i > Len(tpl) THEN <<>>
  ELSE LET n == WordRun(tpl, i + 1) IN
       IF tpl[i] = "{" /\ n >= 1 /\ i + n + 1 <= Len(tpl) /\ tpl[i + n + 1] = "}"
       THEN <<ReGroup(SubSeq(tpl, i + 1, i + n))>> \o convertFrom(tpl, i + n + 2)
       ELSE <<ReLit(tpl[i])>> \o convertFrom(tpl, i + 1)

\* The expression between "^" and "$".
convertPatternToRegex(urlPattern) == convertFrom(urlPattern, 1)

\* paramNames, in template order.
RECURSIVE paramNamesOf(_)
paramNamesOf(re) ==
  IF re = <<>> THEN <<>>
  ELSE (IF Head(re).group # <<>> THEN <<Head(re).group>> ELSE <<>>) \o paramNamesOf(Tail(re))

\* The run a capture class that takes any character would allow.
ClassRunAny(s, i) == IF i <= Len(s) THEN Len(s) - i + 1 ELSE 0

\* Length of the run of characters other than / ? & of s that starts at i.
RECURSIVE ClassRun(_, _)
ClassRun(s, i) ==
  IF i <= Len(s) /\ s[i] \notin GroupStops THEN 1 + ClassRun(s, i + 1) ELSE 0

NoMatchRe == [ok |-> FALSE, caps |-> <<>>]

\* regexp.FindStringSubmatch of "^" re "$" on s from element ri and position
\* si: the captured groups of the match the engine prefers (a group takes as
\* many characters as the rest of the expression allows).
RECURSIVE MatchFrom(_, _, _, _)
RECURSIVE TryGroup(_, _, _, _, _)
MatchFrom(re, ri, s, si) ==
  IF ri > Len(re) THEN [ok |-> si > Len(s), caps |-> <<>>]
  ELSE IF re[ri].group = <<>>
       THEN IF si <= Len(s) /\ s[si] = re[ri].lit
            THEN MatchFrom(re, ri + 1, s, si + 1)
            ELSE NoMatchRe
       ELSE TryGroup(re, ri, s, si, ClassRun(s, si))

TryGroup(re, ri, s, si, n) ==
  IF n < 1 THEN NoMatchRe
  ELSE LET rest == MatchFrom(re, ri + 1, s, si + n) IN
       IF rest.ok
       THEN [ok |-> TRUE, caps |-> <<SubSeq(s, si, si + n - 1)>> \o rest.caps]
       ELSE TryGroup(re, ri, s, si, n - 1)

FindStringSubmatch(re, s) == MatchFrom(re, 1, s, 1)

\* The text after the first "?" of a template (url.Parse's RawQuery).
RECURSIVE RawQueryFrom(_, _)
RawQueryFrom(s, i) ==
  IF i > Len(s) THEN <<>>
  ELSE IF s[i] = "?" THEN SubSeq(s, i + 1, Len(s)) ELSE RawQueryFrom(s, i + 1)

\* ensureHasNotQueryStringParams panics: the parsed template has at least one
\* query parameter (a non-empty segment between "&"s).
HasQueryStringParams(pattern) ==
  LET q == RawQueryFrom(pattern, 1) IN \E k \in 1..Len(q) : q[k] # "&"

\* ------------------------------------------------------------------ URL matchers

\* What the test code writes: a constructor name and its argument.
URLExpr(ctor, arg) == [ctor |-> ctor, arg |-> arg]

\* Path and PathPattern without the check of the template.
URLExprNeverPanics(e) == FALSE

\* The constructor panics instead of returning a URLMatcher.
URLExprPanics(e) ==
  e.ctor \in {"Path", "PathPattern"} /\ HasQueryStringParams(e.arg)

\* The closure the constructor returns, with what it captured.
NewURLMatcher(e) ==
  IF e.ctor \in {"URLPattern", "PathPattern"}
  THEN LET expr == convertPatternToRegex(e.arg) IN
       [kind |-> e.ctor, arg |-> e.arg, regex |-> expr, paramKeys |-> paramNamesOf(expr)]
  ELSE [kind |-> e.ctor, arg |-> e.arg, regex |-> <<>>, paramKeys |-> <<>>]

NoURLMatcher == [kind |-> "", arg |-> <<>>, regex |-> <<>>, paramKeys |-> <<>>]

\* URL(u) that compares u with the path of the request only.
URLMatchesPathOnly(arg, url) == arg = url.Path

\* URL(u): the full request URL equals u.
URLMatches(arg, url) == arg = URLString(url)

\* Path(path) without the trim of the template.
PathMatchesExact(arg, url) == url.Path = arg

\* Path(path): the request path equals the template without one trailing "/".
PathMatches(arg, url) == url.Path = TrimSuffix(arg, <<"/">>)

\* params[paramKey] = match[i+1] for every parameter; a later key with the
\* same name overwrites an earlier one.
RECURSIVE paramsOf(_, _, _)
paramsOf(keys, caps, acc) ==
  IF keys = <<>> THEN acc
  ELSE paramsOf(Tail(keys), Tail(caps),
                [k \in DOMAIN acc \cup {Head(keys)} |->
                   IF k = Head(keys) THEN Head(caps) ELSE acc[k]])

NoParams == [k \in {} |-> <<>>]

\* A URLMatcher applied to a request URL: whether it holds, and the parameter
\* map it stores in the stub (assigned = FALSE: the stub is left alone).
ApplyURLMatcher(um, url) ==
  CASE um.kind = "URL" ->
         [ok |-> URLMatches(um.arg, url), assigned |-> FALSE, params |-> NoParams]
    [] um.kind = "Path" ->
         [ok |-> PathMatches(um.arg, url), assigned |-> FALSE, params |-> NoParams]
    [] OTHER ->
         LET source == IF um.kind = "URLPattern" THEN URLString(url) ELSE url.Path
             match == FindStringSubmatch(um.regex, source)
         IN  IF match.ok
             THEN [ok |-> TRUE, assigned |-> TRUE,
                   params |-> paramsOf(um.paramKeys, match.caps, NoParams)]
             ELSE [ok |-> FALSE, assigned |-> FALSE, params |-> NoParams]


\* ------------------------------------------------------------------ JSON

\* A JSON text is a sequence of tokens: punctuation, white space, string
\* literals (with their quotes) and numbers.
Words == {"name", "john", "rick", "age"}
Numbers == {57}

\* strconv.Quote for the words used here: the text between double quotes.
Quote(s) == "\"" \o s \o "\""

JSONStrings == {Quote(s) : s \in Words}
JSONNumbers == {ToString(n) : n \in Numbers}
JSONWhitespace == {" "}

IsScalar(t) == t \in JSONStrings \cup JSONNumbers

\* The text without insignificant white space.
compact(data) == SelectSeq(data, LAMBDA t : t \notin JSONWhitespace)

NoFields == [k \in {} |-> ""]

\* What json.Unmarshal stores in an `any`: nil, a scalar, or a map from member
\* names to values; valid = FALSE when it returns an error.
MkJSON(valid, kind, scalar, fields) ==
  [valid |-> valid, kind |-> kind, scalar |-> scalar, fields |-> fields]

JSONNil == MkJSON(TRUE, "nil", "", NoFields)
InvalidJSON == MkJSON(FALSE, "", "", NoFields)

\* The members of an object from token i on; the text ends with "}".  A
\* repeated name keeps the value of its last occurrence.
RECURSIVE decodeMembers(_, _, _)
decodeMembers(s, i, acc) ==
  IF i + 3 > Len(s) THEN InvalidJSON
  ELSE IF ~(s[i] \in JSONStrings /\ s[i + 1] = ":" /\ IsScalar(s[i + 2])) THEN InvalidJSON
  ELSE LET fields == [k \in DOMAIN acc \cup {s[i]} |-> IF k = s[i] THEN s[i + 2] ELSE acc[k]]
       IN  IF i + 3 = Len(s) THEN MkJSON(TRUE, "object", "", fields)
           ELSE IF s[i + 3] = "," THEN decodeMembers(s, i + 4, fields)
           ELSE InvalidJSON

\* json.Unmarshal(data, &v) for v of type any.
Unmarshal(data) ==
  LET s == compact(data) IN
  IF s = <<"null">> THEN JSONNil
  ELSE IF Len(s) = 1 /\ IsScalar(s[1]) THEN MkJSON(TRUE, "scalar", s[1], NoFields)
  ELSE IF Len(s) >= 2 /\ s[1] = "{" /\ s[Len(s)] = "}"
       THEN IF Len(s) = 2 THEN MkJSON(TRUE, "object", "", NoFields)
            ELSE decodeMembers(s, 2, NoFields)
       ELSE InvalidJSON

\* json.Valid
Valid(data) == Unmarshal(data).valid

\* equalJSON that reports a text it cannot decode as different, without an error.
equalJSONLenient(v1, v2) ==
  LET json1 == IF Len(v1) > 0 THEN Unmarshal(v1) ELSE JSONNil
      json2 == IF Len(v2) > 0 THEN Unmarshal(v2) ELSE JSONNil
  IN  [equals |-> json1.valid /\ json2.valid /\ json1 = json2, err |-> ""]

\* equalJSON: an empty text stands for nil and is not decoded.
equalJSON(v1, v2) ==
  LET json1 == IF Len(v1) > 0 THEN Unmarshal(v1) ELSE JSONNil
      json2 == IF Len(v2) > 0 THEN Unmarshal(v2) ELSE JSONNil
  IN  IF ~json1.valid THEN [equals |-> FALSE, err |-> "failed to unmarshal JSON v1"]
      ELSE IF ~json2.valid THEN [equals |-> FALSE, err |-> "failed to unmarshal JSON v2"]
      ELSE [equals |-> json1 = json2, err |-> ""]

\* A Go value handed to a rule as `any`: a string, an int, a map[string]any of
\* strings and ints, a json.RawMessage, or a channel.
MkValue(type, s, n, fields, raw) ==
  [type |-> type, s |-> s, n |-> n, fields |-> fields, raw |-> raw]

NoMembers == [k \in {} |-> [type |-> "", s |-> "", n |-> 0]]

GoString(s) == MkValue("string", s, 0, NoMembers, <<>>)
GoInt(n) == MkValue("int", "", n, NoMembers, <<>>)
GoMap(fields) == MkValue("map", "", 0, fields, <<>>)
RawMessage(raw) == MkValue("raw", "", 0, NoMembers, raw)
GoChan == MkValue("chan", "", 0, NoMembers, <<>>)
NoValue == MkValue("", "", 0, NoMembers, <<>>)

\* A member of a map[string]any.
MemberString(s) == [type |-> "string", s |-> s, n |-> 0]
MemberInt(n) == [type |-> "int", s |-> "", n |-> n]

\* The encoding of a string or an int.
encodeScalar(v) == IF v.type = "string" THEN Quote(v.s) ELSE ToString(v.n)

\* The member names used here, in the byte order json.Marshal sorts map keys by.
KeyOrder == <<"age", "name">>

\* The members of a map from the k-th name of KeyOrder on, separated by commas.
RECURSIVE encodeMembers(_, _, _)
encodeMembers(fields, k, first) ==
  IF k > Len(KeyOrder) THEN <<>>
  ELSE IF KeyOrder[k] \notin DOMAIN fields THEN encodeMembers(fields, k + 1, first)
  ELSE (IF first THEN <<>> ELSE <<",">>)
         \o <<Quote(KeyOrder[k]), ":", encodeScalar(fields[KeyOrder[k]])>>
         \o encodeMembers(fields, k + 1, FALSE)

\* json.Marshal: a channel is not supported, a RawMessage must be valid JSON
\* and is written compacted.
Marshal(v) ==
  CASE v.type \in {"string", "int"} -> [data |-> <<encodeScalar(v)>>, err |-> ""]
    [] v.type = "map" ->
         [data |-> <<"{">> \o encodeMembers(v.fields, 1, TRUE) \o <<"}">>, err |-> ""]
    [] v.type = "raw" ->
         IF Valid(v.raw) THEN [data |-> compact(v.raw), err |-> ""]
         ELSE [data |-> <<>>, err |-> "json: error calling MarshalJSON"]
    [] OTHER -> [data |-> <<>>, err |-> "json: unsupported type"]

\* ------------------------------------------------------------------ matchers

\* A requestMatcherFunc: the closure and what it captured.
MkMatcher(kind, method, um, key, value, fn) ==
  [kind |-> kind, method |-> method, um |-> um, key |-> key, value |-> value, fn |-> fn]

methodMatcher(method) == MkMatcher("method", method, NoURLMatcher, <<>>, <<>>, "")
urlMatcher(um) == MkMatcher("url", "", um, <<>>, <<>>, "")
MatchParam(key, value) == MkMatcher("param", "", NoURLMatcher, key, value, "")
MatchRequest(fn) == MkMatcher("request", "", NoURLMatcher, <<>>, <<>>, fn)


\* What a rule constructor that panics yields instead of a rule.
PanicMatcher(msg) == MkMatcher("panic", "", NoURLMatcher, <<>>, <<>>, msg)

MatchNoBody == MkMatcher("nobody", "", NoURLMatcher, <<>>, <<>>, "")

\* MatchJSONBody marshals the value when the rule is built and keeps the text.
MatchJSONBody(body) ==
  LET m == Marshal(body) IN
  IF m.err # "" THEN PanicMatcher("MatchJSONBody err: marshal body failed")
  ELSE MkMatcher("jsonbody", "", NoURLMatcher, <<>>, m.data, "")

MatchRawJSONBody(raw) == MatchJSONBody(RawMessage(raw))
MatchBodyMapFunc(fn) == MkMatcher("bodymap", "", NoURLMatcher, <<>>, <<>>, fn)
MatchBodyStringFunc(fn) == MkMatcher("bodystring", "", NoURLMatcher, <<>>, <<>>, fn)

defaultMatchers(method, um) == <<methodMatcher(method), urlMatcher(um)>>

\* The caller's closures handed to MatchRequest, by name.
CallerFn(fn, r) ==
  CASE fn = "hasQuery" -> r.URL.RawQuery # <<>>
    [] fn = "isGet" -> r.Method = "GET"
    [] OTHER -> FALSE

\* A map[string]any: nil, or a map with its entries.
MkBodyMap(isNil, fields) == [isNil |-> isNil, fields |-> fields]

\* var bodyMap map[string]any
nilBodyMap == MkBodyMap(TRUE, NoFields)

\* The map handed over for an empty body left as declared.
makeMapNil == nilBodyMap

\* make(map[string]any)
makeMap == MkBodyMap(FALSE, NoFields)

\* The caller's closures handed to MatchBodyMapFunc, by name; reading a nil
\* map finds no entry.
CallerMapFn(fn, body) ==
  CASE fn = "nameIsJohn" ->
         Quote("name") \in DOMAIN body.fields /\ body.fields[Quote("name")] = Quote("john")
    [] fn = "notNilAndEmpty" -> ~body.isNil /\ DOMAIN body.fields = {}
    [] fn = "isNil" -> body.isNil
    [] OTHER -> TRUE

\* The caller's closures handed to MatchBodyStringFunc, by name:
\* strings.Contains(body, `:"john"`).
CallerStringFn(fn, data) ==
  CASE fn = "containsJohn" ->
         \E i \in 1..(Len(data) - 1) : data[i] = ":" /\ data[i + 1] = Quote("john")
    [] OTHER -> TRUE

\* st.patternParams[key]: the zero value "" when the map is nil or has no key.
ParamGet(params, key) == IF key \in DOMAIN params THEN params[key] ELSE <<>>

\* mustReadBody that leaves the drained stream in the request.
mustReadBodyDrains(r) == [data |-> r.Body, Body |-> <<>>]

\* mustReadBody: everything left in r.Body is read through a tee into a
\* buffer, and the buffer becomes r.Body.
mustReadBody(r) == [data |-> r.Body, Body |-> r.Body]

\* json.Unmarshal(reqBody, &bodyMap) for a map[string]any: null leaves the map
\* as it is, a text that is neither null nor an object is an error.
UnmarshalMap(data) ==
  LET v == Unmarshal(data) IN
  IF v.valid /\ v.kind \in {"object", "nil"} THEN v ELSE InvalidJSON

\* match(st, r) for one matcher, reading the parameter map `params` of the
\* stub: the result, the parameter map a pattern matcher stores, what a
\* body-reading matcher read and left in r.Body, and the value it panics with.
EvalMatcher(m, params, r) ==
  LET plain(ok) ==
        [ok |-> ok, assigned |-> FALSE, params |-> NoParams,
         read |-> FALSE, data |-> <<>>, Body |-> r.Body, panic |-> ""]
      body == mustReadBody(r)
      onBody(ok, panic) ==
        [ok |-> ok, assigned |-> FALSE, params |-> NoParams,
         read |-> TRUE, data |-> body.data, Body |-> body.Body, panic |-> panic]
  IN
  CASE m.kind = "method" -> plain(r.Method = m.method)
    [] m.kind = "url" ->
         LET u == ApplyURLMatcher(m.um, r.URL) IN
         [plain(u.ok) EXCEPT !.assigned = u.assigned, !.params = u.params]
    [] m.kind = "param" -> plain(ParamGet(params, m.key) = m.value)
    [] m.kind = "nobody" -> onBody(Len(body.data) = 0, "")
    [] m.kind = "jsonbody" ->
         LET eq == equalJSON(body.data, m.value) IN
         IF eq.err # ""
         THEN onBody(FALSE, "MatchJSONBody err: equals failed: " \o eq.err)
         ELSE onBody(eq.equals, "")
    [] m.kind = "bodymap" ->
         IF Len(body.data) = 0 THEN onBody(CallerMapFn(m.fn, makeMap), "")
         ELSE LET v == UnmarshalMap(body.data) IN
              IF ~v.valid THEN onBody(FALSE, "MatchBodyMapFunc err: unmarshal body failed")
              ELSE IF v.kind = "nil" THEN onBody(CallerMapFn(m.fn, nilBodyMap), "")
              ELSE onBody(CallerMapFn(m.fn, MkBodyMap(FALSE, v.fields)), "")
    [] m.kind = "bodystring" -> onBody(CallerStringFn(m.fn, body.data), "")
    [] OTHER -> plain(CallerFn(m.fn, r))

\* ------------------------------------------------------------------ responses

NoHeaders == [k \in {} |-> ""]

\* Header names, as the text the caller writes.
Hdr_X_Test == <<"X", "-", "T", "e", "s", "t">>
Hdr_x_test == <<"x", "-", "t", "e", "s", "t">>
Hdr_X_Other == <<"X", "-", "O", "t", "h", "e", "r">>
Hdr_Content_Type == <<"C", "o", "n", "t", "e", "n", "t", "-", "T", "y", "p", "e">>

\* A stubResponse; the delay is the zero Duration until WithDelay sets it.
MkResponse(statusCode, body, headers) ==
  [statusCode |-> statusCode, body |-> body, headers |-> headers, delay |-> 0]

StatusOK == 200

\* A response descriptor whose status code is the zero value.
newStubResponseZero == MkResponse(0, <<>>, NoHeaders)

newStubResponse == MkResponse(StatusOK, <<>>, NoHeaders)

\* A StubResponseRule, by constructor, with what the closure captured; the
\* rule "panic" is what a constructor that panics yields instead of a rule.
MkRule(rule, code, body, key, value, headers, json, delay) ==
  [rule |-> rule, code |-> code, body |-> body, key |-> key, value |-> value,
   headers |-> headers, json |-> json, delay |-> delay]

PanicRule(msg) == MkRule("panic", 0, <<>>, <<>>, msg, NoHeaders, NoValue, 0)

WithStatusCode(code) == MkRule("WithStatusCode", code, <<>>, <<>>, "", NoHeaders, NoValue, 0)

\* WithBody for a []byte or a string: the bytes as given.
WithBody(body) == MkRule("WithBody", 0, body, <<>>, "", NoHeaders, NoValue, 0)

\* An io.Reader: what io.ReadAll returns for it.
MkReader(data, fails) == [data |-> data, fails |-> fails]

\* WithBody for an io.Reader: it is read to the end when the rule is built.
WithBodyReader(reader) ==
  IF reader.fails THEN PanicRule("WithBody err: failed to read body")
  ELSE WithBody(reader.data)

\* WithRawJSON without the json.Valid check.
WithRawJSONUnchecked(raw) ==
  MkRule("WithRawJSON", 0, raw, <<>>, "", NoHeaders, NoValue, 0)

\* WithRawJSON: the text is validated when the rule is built.
WithRawJSON(raw) ==
  IF ~Valid(raw) THEN PanicRule("json is not valid")
  ELSE MkRule("WithRawJSON", 0, raw, <<>>, "", NoHeaders, NoValue, 0)

\* WithJSON: the value is marshalled when the rule is applied.
WithJSON(body) == MkRule("WithJSON", 0, <<>>, <<>>, "", NoHeaders, body, 0)

WithHeader(key, value) == MkRule("WithHeader", 0, <<>>, key, value, NoHeaders, NoValue, 0)
WithHeaders(headers) == MkRule("WithHeaders", 0, <<>>, <<>>, "", headers, NoValue, 0)

\* WithDelay that records no delay.
WithDelayDropped(d) == MkRule("WithDelay", 0, <<>>, <<>>, "", NoHeaders, NoValue, 0)

\* WithDelay: a duration, in milliseconds.
WithDelay(d) == MkRule("WithDelay", 0, <<>>, <<>>, "", NoHeaders, NoValue, d)

setHeader(r, key, value) ==
  [r EXCEPT !.headers =
     [k \in DOMAIN r.headers \cup {key} |-> IF k = key THEN value ELSE r.headers[k]]]

\* setHeaders: every entry of the given map is written into the stub's map.
setHeaders(r, headers) ==
  [r EXCEPT !.headers =
     [k \in DOMAIN r.headers \cup DOMAIN headers |->
        IF k \in DOMAIN headers THEN headers[k] ELSE r.headers[k]]]

\* setJSON that leaves the headers alone.
setJSONBodyOnly(r, content) == [r EXCEPT !.body = content]

setJSON(r, content) ==
  [setHeader(r, Hdr_Content_Type, "application/json") EXCEPT !.body = content]

\* The value rule(s.response) panics with, "" when it returns.
RulePanics(rule) ==
  IF rule.rule = "WithJSON" /\ Marshal(rule.json).err # ""
  THEN "WithJSON err: body marshal failed"
  ELSE ""

\* rule(s.response), for a rule that returns.
ApplyRule(rule, r) ==
  CASE rule.rule = "WithStatusCode" -> [r EXCEPT !.statusCode = rule.code]
    [] rule.rule = "WithBody" -> [r EXCEPT !.body = rule.body]
    [] rule.rule = "WithRawJSON" -> setJSON(r, rule.body)
    [] rule.rule = "WithJSON" -> setJSON(r, Marshal(rule.json).data)
    [] rule.rule = "WithHeaders" -> setHeaders(r, rule.headers)
    [] rule.rule = "WithDelay" -> [r EXCEPT !.delay = rule.delay]
    [] OTHER -> setHeader(r, rule.key, rule.value)

\* A loop over the rules that goes on with the next rule after one panicked.
RECURSIVE ApplyRulesKeepsGoing(_, _)
ApplyRulesKeepsGoing(rules, r) ==
  IF rules = <<>> THEN r
  ELSE IF RulePanics(Head(rules)) # "" THEN ApplyRulesKeepsGoing(Tail(rules), r)
  ELSE ApplyRulesKeepsGoing(Tail(rules), ApplyRule(Head(rules), r))

\* for _, rule := range rules { rule(s.response) }: a rule that panics ends
\* the loop, the rules before it were applied.
RECURSIVE ApplyRules(_, _)
ApplyRules(rules, r) ==
  IF rules = <<>> \/ RulePanics(Head(rules)) # "" THEN r
  ELSE ApplyRules(Tail(rules), ApplyRule(Head(rules), r))

\* The value the loop over the rules panics with, "" when it ends.
RECURSIVE RespondPanics(_)
RespondPanics(rules) ==
  IF rules = <<>> THEN ""
  ELSE IF RulePanics(Head(rules)) # "" THEN RulePanics(Head(rules))
  ELSE RespondPanics(Tail(rules))

\* The value the first rule constructor that panics panics with, "" when
\* every constructor of the argument list returns a rule.
RECURSIVE RuleCtorPanics(_)
RuleCtorPanics(rules) ==
  IF rules = <<>> THEN ""
  ELSE IF Head(rules).rule = "panic" THEN Head(rules).value
  ELSE RuleCtorPanics(Tail(rules))

\* The same for the matcher rules handed to Match.
RECURSIVE MatcherCtorPanics(_)
MatcherCtorPanics(rules) ==
  IF rules = <<>> THEN ""
  ELSE IF Head(rules).kind = "panic" THEN Head(rules).fn
  ELSE MatcherCtorPanics(Tail(rules))

demonCode == 666

\* What a handler wrote to its http.ResponseWriter: the headers it set, the
\* status and the body; stub is the id of the stub that wrote it, 0 for none.
MkWritten(kind, stub, statusCode, body, headers) ==
  [kind |-> kind, stub |-> stub, statusCode |-> statusCode, body |-> body,
   headers |-> headers]

NothingWritten == MkWritten("none", 0, 0, <<>>, NoHeaders)

\* A panic in the handler: net/http recovers it and closes the connection,
\* nothing is written.
Panicked(msg) == MkWritten("panic", 0, 0, <<msg>>, NoHeaders)

LowerCase == <<"a", "b", "c", "d", "e", "f", "g", "h", "i", "j", "k", "l", "m",
               "n", "o", "p", "q", "r", "s", "t", "u", "v", "w", "x", "y", "z">>
UpperCase == <<"A", "B", "C", "D", "E", "F", "G", "H", "I", "J", "K", "L", "M",
               "N", "O", "P", "Q", "R", "S", "T", "U", "V", "W", "X", "Y", "Z">>

\* The position of c in the alphabet, 0 when it is not one of its letters.
IndexIn(alphabet, c) ==
  IF \E i \in 1..Len(alphabet) : alphabet[i] = c
  THEN CHOOSE i \in 1..Len(alphabet) : alphabet[i] = c
  ELSE 0

ToUpper(c) == IF IndexIn(LowerCase, c) # 0 THEN UpperCase[IndexIn(LowerCase, c)] ELSE c
ToLower(c) == IF IndexIn(UpperCase, c) # 0 THEN LowerCase[IndexIn(UpperCase, c)] ELSE c

\* http.Header.Set writes under textproto.CanonicalMIMEHeaderKey(key): the
\* first letter and every letter after a "-" in upper case, the others in
\* lower case.
CanonicalMIMEHeaderKey(key) ==
  [i \in 1..Len(key) |->
     IF i = 1 \/ key[i - 1] = "-" THEN ToUpper(key[i]) ELSE ToLower(key[i])]

\* The header of the http.ResponseWriter after `for k, v := range headers
\* { w.Header().Set(k, v) }`: the range visits the entries in an unspecified
\* order, and of the entries whose keys have the same canonical form the one
\* visited last stays.
ServedHeaders(headers) ==
  LET keys == {CanonicalMIMEHeaderKey(k) : k \in DOMAIN headers}
      values == {headers[k] : k \in DOMAIN headers}
  IN  {f \in [keys -> values] :
         \A ck \in keys :
           \E k \in DOMAIN headers : CanonicalMIMEHeaderKey(k) = ck /\ f[ck] = headers[k]}

\* stub.write: the responses it can put on the wire.
StubWrite(st) ==
  {MkWritten("stub", st.id, st.response.statusCode, st.response.body, hs) :
     hs \in ServedHeaders(st.response.headers)}

\* writeNoMatch that writes the body without calling WriteHeader first.
writeNoMatchImplicitStatus(r) ==
  MkWritten("nomatch", 0, StatusOK,
            <<"no stubs for ", r.Method, " ">> \o URLString(r.URL), NoHeaders)

\* writeNoMatch
writeNoMatch(r) ==
  MkWritten("nomatch", 0, demonCode,
            <<"no stubs for ", r.Method, " ">> \o URLString(r.URL), NoHeaders)


\* ------------------------------------------------------------------ state

VARIABLES
  server,       \* Server.server: NoServer (nil) or the httptest.Server
  created,      \* listeners opened so far: httptest.NewServer gives each its own URL
  ret,          \* the last Start, Shutdown or Clear call and the error it returned
  stubs,        \* Server.stubs, in registration order
  nextId,       \* the id of the next stub object allocated
  readers,      \* Server.mutex: the number of read locks held
  handlers,     \* per handler goroutine: where it is in the handler function
  last,         \* the request handled last and what was written for it
  clearedUpTo   \* the highest stub id allocated when Clear last ran

vars == <<server, created, ret, stubs, nextId, readers, handlers, last, clearedUpTo>>

Handlers == 1..NumHandlers

NoServer == [URL |-> 0, closed |-> FALSE]

\* httptest.NewServer: a listener on a fresh local address.
NewTestServer(n) == [URL |-> n, closed |-> FALSE]

Listening == server # NoServer /\ ~server.closed

\* Server.URL()
ServerURL == IF server = NoServer THEN 0 ELSE server.URL

Returned(op, err) == [op |-> op, err |-> err]

MkStub(id, matchers, response, patternParams) ==
  [id |-> id, matchers |-> matchers, response |-> response, patternParams |-> patternParams]

IdleHandler ==
  [pc |-> "idle", req |-> NoRequest, si |-> 0, mi |-> 0, n |-> 0, trace |-> <<>>]

NoLast == [req |-> NoRequest, resp |-> NothingWritten, trace |-> <<>>]

\* NewServer
Init ==
  /\ server = NoServer
  /\ created = 0
  /\ ret = Returned("NewServer", "nil")
  /\ stubs = <<>>
  /\ nextId = 1
  /\ readers = 0
  /\ handlers = [h \in Handlers |-> IdleHandler]
  /\ last = NoLast
  /\ clearedUpTo = 0

\* ------------------------------------------------------------------ lifecycle

\* Start that opens a new listener on every call (a bound keeps it finite).
StartRecreates ==
  /\ IF created < 2
     THEN /\ server' = NewTestServer(created + 1)
          /\ created' = created + 1
     ELSE UNCHANGED <<server, created>>
  /\ ret' = Returned("Start", "nil")
  /\ UNCHANGED <<stubs, nextId, readers, handlers, last, clearedUpTo>>

\* Start that opens a new listener when the old one was closed.
StartReopens ==
  /\ IF server = NoServer \/ (server.closed /\ created < 2)
     THEN /\ server' = NewTestServer(created + 1)
          /\ created' = created + 1
     ELSE UNCHANGED <<server, created>>
  /\ ret' = Returned("Start", "nil")
  /\ UNCHANGED <<stubs, nextId, readers, handlers, last, clearedUpTo>>

\* Server.Start
Start ==
  /\ IF server = NoServer
     THEN /\ server' = NewTestServer(created + 1)
          /\ created' = created + 1
     ELSE UNCHANGED <<server, created>>
  /\ ret' = Returned("Start", "nil")
  /\ UNCHANGED <<stubs, nextId, readers, handlers, last, clearedUpTo>>

\* Server.Shutdown.  httptest.Server.Close closes the listener once and
\* returns when no request is outstanding.
Shutdown ==
  /\ \A h \in Handlers : handlers[h].pc = "idle"
  /\ IF server = NoServer
     THEN UNCHANGED server
     ELSE server' = [server EXCEPT !.closed = TRUE]
  /\ ret' = Returned("Shutdown", "nil")
  /\ UNCHANGED <<created, stubs, nextId, readers, handlers, last, clearedUpTo>>

\* Clear that leaves the registry as it is.
ClearKeepsStubs ==
  /\ readers = 0
  /\ clearedUpTo' = nextId - 1
  /\ ret' = Returned("Clear", "nil")
  /\ UNCHANGED <<server, created, stubs, nextId, readers, handlers, last>>

\* Clear that also closes the listener.
ClearCloses ==
  /\ readers = 0
  /\ stubs' = <<>>
  /\ clearedUpTo' = nextId - 1
  /\ server' = IF server = NoServer THEN server ELSE [server EXCEPT !.closed = TRUE]
  /\ ret' = Returned("Clear", "nil")
  /\ UNCHANGED <<created, nextId, readers, handlers, last>>

\* Clear that does not wait for the handlers holding the read lock.
ClearUnlocked ==
  /\ stubs' = <<>>
  /\ clearedUpTo' = nextId - 1
  /\ ret' = Returned("Clear", "nil")
  /\ UNCHANGED <<server, created, nextId, readers, handlers, last>>

\* Server.Clear, under the write lock.
Clear ==
  /\ readers = 0
  /\ stubs' = <<>>
  /\ clearedUpTo' = nextId - 1
  /\ ret' = Returned("Clear", "nil")
  /\ UNCHANGED <<server, created, nextId, readers, handlers, last>>

\* ------------------------------------------------------------------ setup

\* The stub Server.Stub allocates: the two default matchers, a fresh response.
NewStub(id, method, e) ==
  MkStub(id, defaultMatchers(method, NewURLMatcher(e)), newStubResponse, NoParams)

\* stub.Match: each rule's matcher is appended, in the order given.
StubMatch(st, rules) == [st EXCEPT !.matchers = @ \o rules]

\* stub.Respond that starts from a fresh response descriptor on every call.
StubRespondReplaces(st, rules) == [st EXCEPT !.response = ApplyRules(rules, newStubResponse)]

\* stub.Respond: each rule is applied to the response, in the order given.
StubRespond(st, rules) == [st EXCEPT !.response = ApplyRules(rules, @)]

\* Server.Stub(method, url), under the write lock.  The URLMatcher argument is
\* built before the call: when its constructor panics Stub is not entered and
\* the test is left with the panic.
Stub(method, e) ==
  IF URLExprPanics(e)
  THEN /\ ret' = Returned("Stub", "pattern must not contain any query string parameters")
       /\ UNCHANGED <<server, created, stubs, nextId, readers, handlers, last, clearedUpTo>>
  ELSE /\ readers = 0
       /\ Len(stubs) < MaxStubs
       /\ nextId <= MaxIds
       /\ stubs' = Append(stubs, NewStub(nextId, method, e))
       /\ nextId' = nextId + 1
       /\ UNCHANGED <<server, created, ret, readers, handlers, last, clearedUpTo>>

\* stub.Match(rules...) on the i-th stub of the registry; no lock is taken.
\* The rules are built before the call: when a constructor panics Match is not
\* entered.
Match(i, rules) ==
  /\ i \in 1..Len(stubs)
  /\ Len(stubs[i].matchers) - 2 + Len(rules) <= MaxRules
  /\ IF MatcherCtorPanics(rules) # ""
     THEN /\ ret' = Returned("Match", MatcherCtorPanics(rules))
          /\ UNCHANGED stubs
     ELSE /\ stubs' = [stubs EXCEPT ![i] = StubMatch(@, rules)]
          /\ UNCHANGED ret
  /\ UNCHANGED <<server, created, nextId, readers, handlers, last, clearedUpTo>>

\* stub.Respond(rules...) on the i-th stub of the registry; no lock is taken.
\* The rules are built before the call: when a constructor panics Respond is
\* not entered; when a rule panics the rules before it stay applied.
Respond(i, rules) ==
  /\ i \in 1..Len(stubs)
  /\ IF RuleCtorPanics(rules) # ""
     THEN /\ ret' = Returned("Respond", RuleCtorPanics(rules))
          /\ UNCHANGED stubs
     ELSE /\ stubs' = [stubs EXCEPT ![i] = StubRespond(@, rules)]
          /\ ret' = IF RespondPanics(rules) # ""
                    THEN Returned("Respond", RespondPanics(rules))
                    ELSE ret
  /\ UNCHANGED <<server, created, nextId, readers, handlers, last, clearedUpTo>>

\* ------------------------------------------------------------------ the handler

\* len(st.matchers) of the i-th stub, as `range s.matchers` reads it once.
MatchersLen(ss, i) == IF i \in 1..Len(ss) THEN Len(ss[i].matchers) ELSE 0

\* A request reaches the handler while the listener is open; the handler takes
\* the read lock and starts the range over s.stubs.
Receive(h, r) ==
  /\ Listening
  /\ handlers[h].pc = "idle"
  /\ readers' = readers + 1
  /\ handlers' = [handlers EXCEPT ![h] =
       [pc |-> "range", req |-> r, si |-> 1, mi |-> 1, n |-> MatchersLen(stubs, 1),
        trace |-> <<>>]]
  /\ UNCHANGED <<server, created, ret, stubs, nextId, last, clearedUpTo>>

\* The handler returns: the response is written, the deferred RUnlock runs.
Finished(h, written, trace) ==
  /\ handlers' = [handlers EXCEPT ![h] = IdleHandler]
  /\ readers' = readers - 1
  /\ last' = [req |-> handlers[h].req, resp |-> written, trace |-> trace]

\* A handler whose RUnlock is skipped when a matcher panics.
PanicsLocked(h, msg, trace) ==
  /\ handlers' = [handlers EXCEPT ![h] = IdleHandler]
  /\ last' = [req |-> handlers[h].req, resp |-> Panicked(msg), trace |-> trace]
  /\ UNCHANGED readers

\* A matcher panicked: the handler function unwinds, the deferred RUnlock runs,
\* net/http recovers the panic and closes the connection with nothing written.
Panics(h, msg, trace) == Finished(h, Panicked(msg), trace)

\* st.write(w) of the stub that matched: a stub with a delay has the handler
\* sleep first, the read lock still held; without one the response is written
\* and the handler returns.
Write(h, st, trace, body) ==
  IF st.response.delay > 0
  THEN /\ handlers' = [handlers EXCEPT ![h] =
            [handlers[h] EXCEPT !.pc = "sleep", !.trace = trace, !.req.Body = body]]
       /\ UNCHANGED <<readers, last>>
  ELSE \E written \in StubWrite(st) : Finished(h, written, trace)

\* st.match that goes on to the next matcher of the stub after a false result:
\* only the stub's last matcher decides.
MatchStepNoShortCircuit(h) ==
  LET hd == handlers[h] IN
  /\ hd.pc = "range"
  /\ hd.si <= Len(stubs)
  /\ LET st == stubs[hd.si]
         res == EvalMatcher(st.matchers[hd.mi], st.patternParams, hd.req)
         tr == Append(hd.trace, [stub |-> st.id, idx |-> hd.mi, ok |-> res.ok,
                                 read |-> res.read, data |-> res.data])
     IN  /\ stubs' = IF res.assigned
                     THEN [stubs EXCEPT ![hd.si].patternParams = res.params]
                     ELSE stubs
         /\ IF res.panic # ""
            THEN Panics(h, res.panic, hd.trace)
            ELSE IF hd.mi < hd.n
            THEN /\ handlers' = [handlers EXCEPT ![h] =
                      [hd EXCEPT !.mi = hd.mi + 1, !.trace = tr, !.req.Body = res.Body]]
                 /\ UNCHANGED <<readers, last>>
            ELSE IF res.ok
                 THEN Write(h, st, tr, res.Body)
                 ELSE /\ handlers' = [handlers EXCEPT ![h] =
                           [hd EXCEPT !.si = hd.si + 1, !.mi = 1,
                                      !.n = MatchersLen(stubs, hd.si + 1), !.trace = tr,
                                      !.req.Body = res.Body]]
                      /\ UNCHANGED <<readers, last>>
  /\ UNCHANGED <<server, created, ret, nextId, clearedUpTo>>

\* One matcher of st.match(r) on the current stub: a false result moves on to
\* the next stub, a true result of the last matcher writes the stub's response
\* and returns, a panic ends the handler (the deferred RUnlock runs).
MatchStep(h) ==
  LET hd == handlers[h] IN
  /\ hd.pc = "range"
  /\ hd.si <= Len(stubs)
  /\ LET st == stubs[hd.si]
         res == EvalMatcher(st.matchers[hd.mi], st.patternParams, hd.req)
         tr == Append(hd.trace, [stub |-> st.id, idx |-> hd.mi, ok |-> res.ok,
                                 read |-> res.read, data |-> res.data])
     IN  /\ stubs' = IF res.assigned
                     THEN [stubs EXCEPT ![hd.si].patternParams = res.params]
                     ELSE stubs
         /\ IF res.panic # ""
            THEN Panics(h, res.panic, hd.trace)
            ELSE IF ~res.ok
            THEN /\ handlers' = [handlers EXCEPT ![h] =
                      [hd EXCEPT !.si = hd.si + 1, !.mi = 1,
                                 !.n = MatchersLen(stubs, hd.si + 1), !.trace = tr,
                                 !.req.Body = res.Body]]
                 /\ UNCHANGED <<readers, last>>
            ELSE IF hd.mi = hd.n
                 THEN Write(h, st, tr, res.Body)
                 ELSE /\ handlers' = [handlers EXCEPT ![h] =
                           [hd EXCEPT !.mi = hd.mi + 1, !.trace = tr, !.req.Body = res.Body]]
                      /\ UNCHANGED <<readers, last>>
  /\ UNCHANGED <<server, created, ret, nextId, clearedUpTo>>

\* The sleep is over: the response of the stub that matched is written as it
\* is now and the handler returns.
Delayed(h) ==
  LET hd == handlers[h] IN
  /\ hd.pc = "sleep"
  /\ \E written \in StubWrite(stubs[hd.si]) : Finished(h, written, hd.trace)
  /\ UNCHANGED <<server, created, ret, stubs, nextId, clearedUpTo>>

\* A handler that starts the range over when no stub matched.
NoMatchRestarts(h) ==
  /\ handlers[h].pc = "range"
  /\ handlers[h].si > Len(stubs)
  /\ handlers' = [handlers EXCEPT ![h] =
       [handlers[h] EXCEPT !.si = 1, !.mi = 1, !.n = MatchersLen(stubs, 1), !.trace = <<>>]]
  /\ UNCHANGED <<server, created, ret, stubs, nextId, readers, last, clearedUpTo>>

\* The range is over and no stub matched: writeNoMatch.
NoMatch(h) ==
  /\ handlers[h].pc = "range"
  /\ handlers[h].si > Len(stubs)
  /\ Finished(h, writeNoMatch(handlers[h].req), handlers[h].trace)
  /\ UNCHANGED <<server, created, ret, stubs, nextId, clearedUpTo>>

\* ------------------------------------------------------------------ specification

\* A test that sends one request at a time.
OneAtATime == {1}

URL_api_users == MkURL(Str_api_users, <<>>, FALSE)
URL_api_users_42 == MkURL(Str_api_users \o <<"/">> \o Str_42, <<>>, FALSE)
URL_api_users_7 == MkURL(Str_api_users \o <<"/">> \o Str_7, <<>>, FALSE)

\* The calls of a test that sets stubs up, sends requests one at a time, and
\* starts, clears and shuts the server down, in any order.
Methods == {"GET"}
URLExprs == {URLExpr("URL", Str_api_users)}
MatchRules == {<<MatchRequest("isGet")>>}
RespondRules ==
  {<<WithStatusCode(201), WithHeader(Hdr_X_Test, "v"), WithBody(<<"matched request">>)>>}
Requests == {MkRequest("GET", URL_api_users), MkRequest("POST", URL_api_users),
             MkRequest("GET", URL_api_users_42)}

Next ==
  \/ Start
  \/ Shutdown
  \/ Clear
  \/ \E m \in Methods, e \in URLExprs : Stub(m, e)
  \/ \E i \in 1..MaxStubs, rules \in MatchRules : Match(i, rules)
  \/ \E i \in 1..MaxStubs, rules \in RespondRules : Respond(i, rules)
  \/ \E h \in OneAtATime, r \in Requests : Receive(h, r)
  \/ \E h \in OneAtATime : MatchStep(h)
  \/ \E h \in OneAtATime : NoMatch(h)

Spec == Init /\ [][Next]_vars

\* A started server whose registry was set up by Stub(...).Match(...).Respond(...)
\* chains before any request is sent.
InitWith(registries) ==
  /\ server = NewTestServer(1)
  /\ created = 1
  /\ ret = Returned("Start", "nil")
  /\ stubs \in registries
  /\ nextId = Len(stubs) + 1
  /\ readers = 0
  /\ handlers = [h \in Handlers |-> IdleHandler]
  /\ last = NoLast
  /\ clearedUpTo = 0

\* The stub a setup chain leaves in the registry.
Configured(id, c) ==
  StubRespond(StubMatch(NewStub(id, c.method, c.url), c.match), c.respond)

Config(method, url, match, respond) ==
  [method |-> method, url |-> url, match |-> match, respond |-> respond]

\* The registries of 1..MaxStubs stubs that setup chains drawn from configs build.
RegistriesOf(configs) ==
  UNION {{[i \in 1..n |-> Configured(i, cs[i])] : cs \in [1..n -> configs]} :
         n \in 1..MaxStubs}

\* Requests being handled, by the handlers hs.
Traffic(hs, reqs) ==
  \/ \E h \in hs, r \in reqs : Receive(h, r)
  \/ \E h \in hs : MatchStep(h)
  \/ \E h \in hs : NoMatch(h)

\* Concurrent requests against stubs with a pattern and a parameter matcher.
Pattern_id == URLExpr("PathPattern", Str_api_users \o <<"/", "{">> \o Str_id \o <<"}">>)

ParamConfigs ==
  {Config("GET", Pattern_id, <<MatchParam(Str_id, Str_42)>>, <<WithStatusCode(201)>>),
   Config("GET", Pattern_id, <<MatchParam(Str_id, Str_7)>>, <<WithStatusCode(202)>>)}

ParamRequests == {MkRequest("GET", URL_api_users_42), MkRequest("GET", URL_api_users_7)}

InitParam == InitWith(RegistriesOf(ParamConfigs))

NextParam == Traffic(Handlers, ParamRequests)

SpecParam == InitParam /\ [][NextParam]_vars

\* One request at a time against stubs with caller-supplied matchers.
Path_api_users == URLExpr("Path", Str_api_users)
Path_api_users_slash == URLExpr("Path", Str_api_users_slash)
URL_api_users_page1 == MkURL(Str_api_users, Str_page1, FALSE)
URL_api_users_page2 == MkURL(Str_api_users, Str_page2, FALSE)

ChainConfigs ==
  {Config("GET", Path_api_users, <<MatchRequest("hasQuery")>>, <<WithStatusCode(201)>>),
   Config("POST", Path_api_users, <<MatchRequest("hasQuery"), MatchRequest("isGet")>>,
          <<WithStatusCode(202)>>),
   Config("POST", Path_api_users, <<>>, <<WithStatusCode(203)>>)}

ChainRequests ==
  {MkRequest(m, u) : m \in {"GET", "POST"},
                     u \in {URL_api_users, URL_api_users_page1, URL_api_users_42}}

InitChain == InitWith(RegistriesOf(ChainConfigs))

NextChain == Traffic(OneAtATime, ChainRequests)

SpecChain == InitChain /\ [][NextChain]_vars

\* One request at a time against stubs registered for a method and an exact URL.
URLConfigs ==
  {Config("GET", URLExpr("URL", Str_api_users), <<>>, <<WithStatusCode(201)>>),
   Config("GET", URLExpr("URL", Str_api_users \o <<"?">> \o Str_page1), <<>>,
          <<WithStatusCode(202)>>),
   Config("POST", URLExpr("URL", Str_api_users), <<>>, <<WithStatusCode(203)>>)}

URLRequests ==
  {MkRequest(m, u) : m \in {"GET", "POST", "get"},
                     u \in {URL_api_users, URL_api_users_page1, URL_api_users_page2,
                            URL_api_users_42, MkURL(Str_api_users, <<>>, TRUE)}}

InitURL == InitWith(RegistriesOf(URLConfigs))

NextURL == Traffic(OneAtATime, URLRequests)

SpecURL == InitURL /\ [][NextURL]_vars

\* One request at a time against stubs registered for a method and a path.
PathConfigs ==
  {Config("GET", Path_api_users, <<>>, <<WithStatusCode(201)>>),
   Config("GET", Path_api_users_slash, <<>>, <<WithStatusCode(202)>>),
   Config("POST", Path_api_users_slash, <<>>, <<WithStatusCode(203)>>)}

PathRequests ==
  {MkRequest(m, MkURL(path, q, FALSE)) :
     m \in {"GET", "POST"},
     path \in {Str_api_users, Str_api_users_slash, Str_api_users_slash \o Str_john_doe},
     q \in {<<>>, Str_page1}}

InitPath == InitWith(RegistriesOf(PathConfigs))

NextPath == Traffic(OneAtATime, PathRequests)

SpecPath == InitPath /\ [][NextPath]_vars

\* ------------------------------------------------------------------ claims

\* st.match(r) for a request handled on its own: every matcher of the chain
\* holds, a parameter matcher reading what the pattern matcher of the same
\* chain captured from r.
RECURSIVE ChainHolds(_, _, _)
ChainHolds(matchers, params, r) ==
  IF matchers = <<>> THEN TRUE
  ELSE LET res == EvalMatcher(Head(matchers), params, r) IN
       /\ res.ok
       /\ ChainHolds(Tail(matchers), IF res.assigned THEN res.params ELSE params, r)

\* The lowest index of a stub whose whole chain holds for r, 0 when there is none.
FirstMatch(ss, r) ==
  LET holds == {i \in 1..Len(ss) : ChainHolds(ss[i].matchers, NoParams, r)} IN
  IF holds = {} THEN 0 ELSE CHOOSE i \in holds : \A j \in holds : i <= j

\* The response the registry ss owes to r.
Expected(ss, r) ==
  IF FirstMatch(ss, r) = 0 THEN {writeNoMatch(r)} ELSE StubWrite(ss[FirstMatch(ss, r)])

\* C1: the response written for a request is that of the lowest-indexed stub
\* all of whose matchers hold for the request, and the sentinel when no stub's
\* chain holds.
C1_FirstMatchWins ==
  last.resp.kind # "none" => last.resp \in Expected(stubs, last.req)

\* A handler is about to evaluate a MatchParam matcher of stub si.
AtParam(h) ==
  /\ handlers[h].pc = "range"
  /\ handlers[h].si <= Len(stubs)
  /\ stubs[handlers[h].si].matchers[handlers[h].mi].kind = "param"

\* C2: when requests with different {id} values are matched concurrently
\* against the same stub, the parameter map a request's MatchParam evaluation
\* reads is the one captured from that request's own URL.
C2_OwnCapture ==
  \A h \in Handlers :
    AtParam(h) =>
      stubs[handlers[h].si].patternParams =
        ApplyURLMatcher(stubs[handlers[h].si].matchers[2].um, handlers[h].req.URL).params


\* A handler returns in this step.
Completed(h) == handlers[h].pc = "range" /\ handlers'[h].pc = "idle"

\* C3: when no stub matched, the response has status 666, the body
\* `no stubs for <METHOD> <URL>` of the request, and no header of any stub.
C3_Sentinel ==
  (last.resp.kind # "none" /\ (last.trace = <<>> \/ ~last.trace[Len(last.trace)].ok))
    => /\ last.resp.kind = "nomatch"
       /\ last.resp.statusCode = 666
       /\ last.resp.body = <<"no stubs for ", last.req.Method, " ">> \o URLString(last.req.URL)
       /\ DOMAIN last.resp.headers = {}

\* A stub with a configured header was tried and the sentinel was written.
C3_Witness ==
  /\ last.resp.kind = "nomatch"
  /\ last.trace # <<>>
  /\ \E i \in 1..Len(stubs) : DOMAIN stubs[i].response.headers # {}

\* No Stub call since the last Clear (or since NewServer).
SinceClear == clearedUpTo = nextId - 1

\* C4: after a Clear every request gets the sentinel until Stub is called
\* again, and a request answered by a stub is answered by one registered
\* after the last Clear.
C4_AfterClear ==
  [][\A h \in Handlers :
       Completed(h) =>
         /\ SinceClear => last'.resp.kind = "nomatch"
         /\ last'.resp.kind = "stub" =>
              /\ last'.resp.stub > clearedUpTo
              /\ last'.resp.stub \in {stubs[i].id : i \in 1..Len(stubs)}]_vars

\* A Clear removed a stub and a stub registered later answered a request.
C4_Witness ==
  /\ clearedUpTo >= 1
  /\ last.resp.kind = "stub"
  /\ last.resp.stub > clearedUpTo

\* C5: Start and Shutdown return no error; Start on a started server keeps
\* its listener; Shutdown before Start or after a Shutdown changes nothing.
C5_Idempotent ==
  [][/\ (Start \/ Shutdown) => ret'.err = "nil"
     /\ (Start /\ server # NoServer) =>
          (server' = server /\ created' = created /\ ServerURL' = ServerURL)
     /\ (Shutdown /\ (server = NoServer \/ server.closed)) =>
          (server' = server /\ created' = created /\ stubs' = stubs)]_vars

\* Shutdown was called on a server that was never started, and returned nil.
C5_Witness == server = NoServer /\ ret = Returned("Shutdown", "nil")

\* C6: Clear empties the registry and leaves the lifecycle state and the
\* listener as they are.
C6_ClearFrame ==
  [][Clear =>
       /\ stubs' = <<>>
       /\ server' = server
       /\ created' = created
       /\ ServerURL' = ServerURL]_vars

\* Clear just removed a stub from a listening server, which is still listening.
C6_Witness ==
  /\ ret.op = "Clear"
  /\ clearedUpTo >= 1
  /\ stubs = <<>>
  /\ Listening

\* 0 unstarted, 1 listening, 2 closed.
Lifecycle(sv) == IF sv = NoServer THEN 0 ELSE IF sv.closed THEN 2 ELSE 1

\* C7: the lifecycle only moves unstarted -> listening -> closed; a closed
\* server is never listening again.
C7_NoReopen ==
  [][/\ Lifecycle(server') >= Lifecycle(server)
     /\ Lifecycle(server') <= Lifecycle(server) + 1
     /\ Lifecycle(server) = 2 => server' = server]_vars

\* Start was called on a closed server, which stays closed.
C7_Witness == server # NoServer /\ server.closed /\ ret.op = "Start"


\* The index in the registry of the stub with this id, 0 when it is not there.
StubIndex(id) ==
  IF \E i \in 1..Len(stubs) : stubs[i].id = id
  THEN CHOOSE i \in 1..Len(stubs) : stubs[i].id = id
  ELSE 0

\* The matcher invocations of one request, in order: each is the next matcher
\* of the same stub after a true result, and the first matcher of the next
\* stub after a false one; each result is that of the matcher at that place.
TraceOrdered(trace, r) ==
  \A k \in 1..Len(trace) :
    LET e == trace[k]
        i == StubIndex(e.stub)
    IN  /\ i # 0
        /\ e.idx \in 1..Len(stubs[i].matchers)
        /\ e.ok = EvalMatcher(stubs[i].matchers[e.idx], NoParams, r).ok
        /\ IF k = 1 THEN i = 1 /\ e.idx = 1
           ELSE IF trace[k - 1].ok
                THEN e.stub = trace[k - 1].stub /\ e.idx = trace[k - 1].idx + 1
                ELSE i = StubIndex(trace[k - 1].stub) + 1 /\ e.idx = 1

\* The invocations of a handled request end with the last matcher of the stub
\* that answered, or with a false result of the last stub of the registry.
TraceComplete(trace, resp) ==
  IF trace = <<>> THEN resp.kind = "nomatch" /\ stubs = <<>>
  ELSE LET e == trace[Len(trace)]
           i == StubIndex(e.stub)
       IN  IF e.ok
           THEN e.idx = Len(stubs[i].matchers) /\ resp.kind = "stub" /\ resp.stub = e.stub
           ELSE i = Len(stubs) /\ resp.kind = "nomatch"

\* The chain of every stub is the method matcher, the URL matcher, then the
\* Match rules of its setup chain in the order given.
ChainsAsGiven(configs) ==
  \A i \in 1..Len(stubs) :
    \E c \in configs :
      stubs[i].matchers =
        <<methodMatcher(c.method), urlMatcher(NewURLMatcher(c.url))>> \o c.match

\* C8: within one stub the matchers are evaluated in append order and the
\* evaluation stops at the first that fails: a matcher is invoked once for a
\* request that passed all matchers before it, and not at all otherwise.
C8_ShortCircuit ==
  /\ ChainsAsGiven(ChainConfigs)
  /\ \A h \in Handlers : TraceOrdered(handlers[h].trace, handlers[h].req)
  /\ TraceOrdered(last.trace, last.req)
  /\ last.resp.kind # "none" => TraceComplete(last.trace, last.resp)

\* A request failed the method matcher of one stub, whose caller-supplied
\* matchers were not invoked, and reached the second caller-supplied matcher
\* of another stub.
C8_Witness ==
  /\ \E k \in 1..Len(last.trace) : last.trace[k].idx = 1 /\ ~last.trace[k].ok
  /\ \E k \in 1..Len(last.trace) : last.trace[k].idx = 4

\* The method and the URL a stub was registered with.
StubMethod(st) == st.matchers[1].method
StubURLArg(st) == st.matchers[2].um.arg

\* The request target as sent: the path, then "?" and the query when a "?"
\* was sent.
Target(r) ==
  IF r.URL.ForceQuery \/ r.URL.RawQuery # <<>>
  THEN r.URL.Path \o <<"?">> \o r.URL.RawQuery
  ELSE r.URL.Path

\* C9: every stub starts with the method and the URL matcher, and a stub
\* registered for method M and exact URL U answers a request only when its
\* method is M and its full URL is U; a request no stub is registered for gets
\* the sentinel.
C9_MethodAndURL ==
  /\ \A i \in 1..Len(stubs) :
       stubs[i].matchers[1].kind = "method" /\ stubs[i].matchers[2].kind = "url"
  /\ last.resp.kind = "stub" =>
       LET st == stubs[StubIndex(last.resp.stub)] IN
       /\ StubMethod(st) = last.req.Method
       /\ StubURLArg(st) = Target(last.req)
  /\ (last.resp.kind # "none" /\
      ~\E i \in 1..Len(stubs) :
          StubMethod(stubs[i]) = last.req.Method /\ StubURLArg(stubs[i]) = Target(last.req))
       => last.resp.kind = "nomatch"

\* A request with a query string was answered by the stub registered for it,
\* after a stub registered for the same path without the query was tried.
C9_Witness ==
  /\ last.resp.kind = "stub"
  /\ last.req.URL.RawQuery # <<>>
  /\ Len(last.trace) > 2

\* The template and the path differ by at most one trailing slash, on either.
SameUpToSlash(a, b) == a = b \/ a = b \o <<"/">> \/ b = a \o <<"/">>

TemplateSlashOnly(tpl, path) ==
  \/ tpl = path \o <<"/">>
  \/ tpl = path /\ (tpl = <<>> \/ tpl[Len(tpl)] # "/")

IdSegment(r) == SubSeq(r.URL.Path, Len(Str_api_users) + 2, Len(r.URL.Path))

\* C11: for a stub registered with /api/users/{id} and MatchParam("id", v), a
\* request to /api/users/x passes the parameter matcher exactly when x = v, and
\* is answered by a stub exactly when the registry holds one with v = x.
C11_ParamIffEqual ==
  last.resp.kind # "none" =>
    /\ \A k \in 1..Len(last.trace) :
         LET e == last.trace[k]
             m == stubs[StubIndex(e.stub)].matchers[e.idx]
         IN  m.kind = "param" => (e.ok = (m.value = IdSegment(last.req)))
    /\ (last.resp.kind = "stub") =
         \E i \in 1..Len(stubs) : stubs[i].matchers[3].value = IdSegment(last.req)

\* One request at a time against stubs with a parameter matcher and no pattern.
NoPatternConfigs ==
  {Config("GET", Path_api_users, <<MatchParam(Str_id, <<>>)>>, <<WithStatusCode(201)>>),
   Config("GET", URLExpr("URL", Str_api_users), <<MatchParam(Str_id, Str_42)>>,
          <<WithStatusCode(202)>>),
   Config("POST", Path_api_users, <<MatchParam(Str_42, <<>>)>>, <<WithStatusCode(203)>>)}

NoPatternRequests ==
  {MkRequest(m, u) : m \in {"GET", "POST"}, u \in {URL_api_users, URL_api_users_42}}

InitNoPattern == InitWith(RegistriesOf(NoPatternConfigs))

NextNoPattern == Traffic(OneAtATime, NoPatternRequests)

SpecNoPattern == InitNoPattern /\ [][NextNoPattern]_vars

\* C12: a MatchParam matcher of a stub whose URL matcher is URL or Path never
\* holds, for every key and value, and such a stub never answers a request.
C12_NeverHolds ==
  /\ \A k \in 1..Len(last.trace) :
       LET e == last.trace[k]
           st == stubs[StubIndex(e.stub)]
       IN  (st.matchers[e.idx].kind = "param" /\ st.matchers[2].um.kind \in {"URL", "Path"})
             => ~e.ok
  /\ last.resp.kind = "stub" =>
       LET st == stubs[StubIndex(last.resp.stub)] IN
       ~(st.matchers[2].um.kind \in {"URL", "Path"} /\
         \E j \in 1..Len(st.matchers) : st.matchers[j].kind = "param")


\* One request at a time against stubs with body-reading matchers.
Doc_john == <<"{", Quote("name"), ":", Quote("john"), "}">>
Doc_john_spaced == <<"{", " ", Quote("name"), ":", " ", Quote("john"), " ", "}">>
Doc_rick == <<"{", Quote("name"), ":", Quote("rick"), "}">>
Doc_john_57 ==
  <<"{", Quote("name"), ":", Quote("john"), ",", Quote("age"), ":", ToString(57), "}">>
Doc_invalid_object == <<"{", Quote("name"), ":", Quote("john"), ",", "}">>
Doc_invalid_string == <<"john">>

Map_john == GoMap([k \in {"name"} |-> MemberString("john")])

BodyConfigs ==
  {Config("POST", Path_api_users,
          <<MatchBodyStringFunc("containsJohn"), MatchJSONBody(Map_john)>>,
          <<WithStatusCode(201)>>),
   Config("POST", Path_api_users, <<MatchNoBody>>, <<WithStatusCode(202)>>),
   Config("POST", Path_api_users, <<MatchBodyMapFunc("nameIsJohn")>>, <<WithStatusCode(203)>>),
   Config("POST", Path_api_users, <<MatchRawJSONBody(Doc_rick)>>, <<WithStatusCode(204)>>)}

BodyRequests ==
  {MkRequestWithBody(m, URL_api_users, b) :
     m \in {"GET", "POST"},
     b \in {<<>>, Doc_john, Doc_john_spaced, Doc_rick, Doc_john_57,
            Doc_invalid_object, Doc_invalid_string}}

InitBody == InitWith(RegistriesOf(BodyConfigs))

NextBody == Traffic(OneAtATime, BodyRequests)

SpecBody == InitBody /\ [][NextBody]_vars

\* The matcher invocations of a trace that read the request body.
Reads(trace) == {k \in 1..Len(trace) : trace[k].read}

\* C13: every body-reading matcher evaluated for a request, in the same stub
\* or in a later one, reads the bytes the first one read, and leaves them in
\* the request for the next.
C13_BodyRestored ==
  /\ \A j, k \in Reads(last.trace) : last.trace[j].data = last.trace[k].data
  /\ \A h \in Handlers :
       \A k \in Reads(handlers[h].trace) :
         handlers[h].trace[k].data = handlers[h].req.Body

\* A request with a body was read twice by the matchers of one stub and again
\* by a matcher of a later stub.
C13_Witness ==
  \E i, j, k \in Reads(last.trace) :
    /\ i < j /\ j < k
    /\ last.trace[i].stub = last.trace[j].stub
    /\ last.trace[j].stub # last.trace[k].stub
    /\ last.trace[k].data # <<>>

\* A body that is there and is not JSON.
Malformed(data) == Len(data) > 0 /\ ~Valid(data)

\* The handler is about to evaluate a JSON-body matcher on a malformed body.
AtJSONBodyMalformed(h) ==
  /\ handlers[h].pc = "range"
  /\ handlers[h].si <= Len(stubs)
  /\ stubs[handlers[h].si].matchers[handlers[h].mi].kind = "jsonbody"
  /\ Malformed(handlers[h].req.Body)

\* C14: a request with a malformed body that reaches a JSON-body matcher ends
\* in a panic of the handler: no further matcher or stub is tried, and neither
\* a stub's response nor the sentinel is written for it.
C14_FailFast ==
  [][\A h \in Handlers :
       (AtJSONBodyMalformed(h) /\ MatchStep(h)) =>
         /\ handlers'[h].pc = "idle"
         /\ last'.req = handlers[h].req
         /\ last'.trace = handlers[h].trace
         /\ last'.resp.kind = "panic"]_vars

\* The handler panicked in the first stub of a registry that holds a later one.
C14_Witness ==
  /\ last.resp.kind = "panic"
  /\ Malformed(last.req.Body)
  /\ Len(stubs) >= 2
  /\ last.trace # <<>>
  /\ last.trace[Len(last.trace)].stub = stubs[1].id
  /\ stubs[1].matchers[Len(last.trace) + 1].kind = "jsonbody"


\* A test that sets stubs up with well-formed and with erroneous arguments
\* while requests are sent one at a time.
Path_query == URLExpr("Path", Str_api_users \o <<"?">> \o Str_page1)
PathPattern_query ==
  URLExpr("PathPattern",
          Str_api_users \o <<"/", "{">> \o Str_id \o <<"}", "?">> \o Str_page1)

FailingReader == MkReader(<<>>, TRUE)

SetupURLExprs == {Path_api_users, Path_query, PathPattern_query}

SetupMatchRules ==
  {<<MatchRawJSONBody(Doc_john)>>, <<MatchRawJSONBody(Doc_invalid_object)>>,
   <<MatchRawJSONBody(Doc_invalid_string)>>, <<MatchJSONBody(GoChan)>>}

SetupRespondRules ==
  {<<WithStatusCode(201), WithRawJSON(Doc_invalid_object)>>,
   <<WithStatusCode(201), WithRawJSON(Doc_invalid_string)>>,
   <<WithStatusCode(202), WithJSON(GoChan)>>,
   <<WithBodyReader(FailingReader)>>}

SetupRequests ==
  {MkRequestWithBody("POST", URL_api_users, Doc_john),
   MkRequestWithBody("POST", URL_api_users, Doc_invalid_object)}

InitSetup == InitWith({<<>>})

NextSetup ==
  \/ \E e \in SetupURLExprs : (URLExprPanics(e) \/ Len(stubs) < MaxSetupStubs) /\ Stub("POST", e)
  \/ \E i \in 1..MaxSetupStubs, rules \in SetupMatchRules : Match(i, rules)
  \/ \E i \in 1..MaxSetupStubs, rules \in SetupRespondRules : Respond(i, rules)
  \/ Traffic(OneAtATime, SetupRequests)

SpecSetup == InitSetup /\ [][NextSetup]_vars

\* What the setup calls panic with on a configuration error.
ConfigErrors ==
  {"pattern must not contain any query string parameters",
   "json is not valid",
   "WithJSON err: body marshal failed",
   "MatchJSONBody err: marshal body failed",
   "WithBody err: failed to read body"}

PathQueryURLExprs == {Path_api_users, Path_api_users_slash, Path_query}

PathQueryRequests ==
  {MkRequest("POST", URL_api_users_page1), MkRequest("POST", URL_api_users),
   MkRequest("GET", URL_api_users_page1)}

InitPathQuery == InitWith({<<>>})

NextPathQuery ==
  \/ \E e \in PathQueryURLExprs : Stub("POST", e)
  \/ Traffic(OneAtATime, PathQueryRequests)

SpecPathQuery == InitPathQuery /\ [][NextPathQuery]_vars

\* A template holds a query string.
HasQuery(tpl) == \E k \in 1..Len(tpl) : tpl[k] = "?"

RuleLists(rules) == UNION {[1..n -> rules] : n \in 1..MaxCall}

OneStub == <<NewStub(1, "GET", URLExpr("URL", Str_api_users))>>

OneStubRequests == {MkRequest("GET", URL_api_users), MkRequest("POST", URL_api_users)}

StatusBodyRules ==
  {WithStatusCode(201), WithStatusCode(404), WithBody(<<"matched request">>),
   WithBody(<<"request body">>)}

InitRespond == InitWith({OneStub})

NextRespond ==
  \/ \E rules \in RuleLists(StatusBodyRules) : Respond(1, rules)
  \/ Traffic(OneAtATime, OneStubRequests)

SpecRespond == InitRespond /\ [][NextRespond]_vars

\* The position of the last rule of the list built by one of the constructors
\* named, 0 when there is none.
LastRule(rules, names) ==
  LET at == {k \in 1..Len(rules) : rules[k].rule \in names} IN
  IF at = {} THEN 0 ELSE CHOOSE k \in at : \A j \in at : j <= k

\* C17: a Respond call leaves in the response descriptor the status code and
\* the body of its last status-code and body rule, and what the calls before
\* left there in a field none of its rules targets; a request is answered with
\* the status code and the body of the descriptor.
C17_RulesInOrder ==
  [][/\ \A rules \in RuleLists(StatusBodyRules) :
          Respond(1, rules) =>
            LET old == stubs[1].response
                new == stubs'[1].response
                sc == LastRule(rules, {"WithStatusCode"})
                b == LastRule(rules, {"WithBody"})
            IN  /\ new.statusCode = IF sc = 0 THEN old.statusCode ELSE rules[sc].code
                /\ new.body = IF b = 0 THEN old.body ELSE rules[b].body
                /\ new.headers = old.headers
     /\ \A h \in Handlers :
          (Completed(h) /\ last'.resp.kind = "stub") =>
            /\ last'.resp.statusCode = stubs[1].response.statusCode
            /\ last'.resp.body = stubs[1].response.body]_vars

\* A request was answered with the default status code and a body, and the
\* descriptor has since been given a status code and another body.
C17_Witness ==
  /\ last.resp.kind = "stub"
  /\ last.resp.statusCode = StatusOK
  /\ last.resp.body = <<"matched request">>
  /\ stubs[1].response.statusCode = 404
  /\ stubs[1].response.body = <<"request body">>


\* The setup chain a stub of the registry was built by: the chains of a set of
\* configurations differ in method or URL.
ConfigOf(configs, st) ==
  CHOOSE c \in configs : c.method = StubMethod(st) /\ c.url.arg = StubURLArg(st)

\* One request at a time against stubs with header rules.
Headers_Test_Other ==
  [k \in {Hdr_X_Test, Hdr_X_Other} |-> IF k = Hdr_X_Test THEN "v3" ELSE "w"]
Headers_Other == [k \in {Hdr_X_Other} |-> "w2"]

URL_page1 == URLExpr("URL", Str_api_users \o <<"?">> \o Str_page1)

HeaderConfigs ==
  {Config("GET", URLExpr("URL", Str_api_users), <<>>,
          <<WithHeader(Hdr_X_Test, "v1"), WithHeader(Hdr_X_Test, "v2"),
            WithHeader(Hdr_X_Test, "v2")>>),
   Config("GET", URL_page1, <<>>,
          <<WithHeader(Hdr_X_Test, "v1"), WithHeaders(Headers_Test_Other),
            WithHeaders(Headers_Other)>>),
   Config("POST", URLExpr("URL", Str_api_users), <<>>,
          <<WithHeader(Hdr_X_Test, "v1"), WithHeader(Hdr_x_test, "v2")>>)}

HeaderRequests ==
  {MkRequest(m, u) : m \in {"GET", "POST"}, u \in {URL_api_users, URL_api_users_page1}}

InitHeaders == InitWith(RegistriesOf(HeaderConfigs))

NextHeaders == Traffic(OneAtATime, HeaderRequests)

SpecHeaders == InitHeaders /\ [][NextHeaders]_vars

\* The header names a rule writes, and the value it writes under one of them.
Writes(rule) ==
  IF rule.rule = "WithHeader" THEN {rule.key}
  ELSE IF rule.rule = "WithHeaders" THEN DOMAIN rule.headers
  ELSE {}

WrittenValue(rule, k) == IF rule.rule = "WithHeader" THEN rule.value ELSE rule.headers[k]

\* The rules of a list that write the header whose name on the wire is name.
WritersOf(rules, name) ==
  {j \in 1..Len(rules) : \E k \in Writes(rules[j]) : CanonicalMIMEHeaderKey(k) = name}

\* C18: the header set served for a stub holds every header its rules wrote
\* once, with the value of the last rule that wrote it.
C18_LastWriteWins ==
  last.resp.kind = "stub" =>
    LET rules == ConfigOf(HeaderConfigs, stubs[StubIndex(last.resp.stub)]).respond
        names == {CanonicalMIMEHeaderKey(k) : k \in UNION {Writes(rules[j]) : j \in 1..Len(rules)}}
    IN  /\ DOMAIN last.resp.headers = names
        /\ \A name \in names :
             LET j == CHOOSE j \in WritersOf(rules, name) :
                        \A i \in WritersOf(rules, name) : i <= j
             IN  \E k \in Writes(rules[j]) :
                   /\ CanonicalMIMEHeaderKey(k) = name
                   /\ last.resp.headers[name] = WrittenValue(rules[j], k)


\* JSON rules and status-code rules on one stub, between requests.
Map_john_57 ==
  GoMap([k \in {"name", "age"} |-> IF k = "name" THEN MemberString("john") ELSE MemberInt(57)])

JSONRules ==
  {WithStatusCode(201), WithJSON(Map_john_57), WithJSON(GoString("john")),
   WithRawJSON(Doc_john_spaced)}

NextJSON ==
  \/ \E rules \in RuleLists(JSONRules) : Respond(1, rules)
  \/ Traffic(OneAtATime, OneStubRequests)

SpecJSON == InitRespond /\ [][NextJSON]_vars

\* The body a JSON rule stands for: the text encoding/json gives for the value
\* of WithJSON, the text handed to WithRawJSON.
BodyOfJSONRule(rule) ==
  CASE rule = WithJSON(Map_john_57) ->
         <<"{", Quote("age"), ":", "57", ",", Quote("name"), ":", Quote("john"), "}">>
    [] rule = WithJSON(GoString("john")) -> <<Quote("john")>>
    [] rule = WithRawJSON(Doc_john_spaced) ->
         <<"{", " ", Quote("name"), ":", " ", Quote("john"), " ", "}">>

\* C19: a Respond call with a JSON rule leaves the text of its last JSON rule
\* as the body and application/json as the Content-Type, next to the status
\* code of its last status-code rule or the one the stub had; a request is
\* answered with that body, that Content-Type and that status code.
C19_JSONBodyAndContentType ==
  [][/\ \A rules \in RuleLists(JSONRules) :
          Respond(1, rules) =>
            LET old == stubs[1].response
                new == stubs'[1].response
                j == LastRule(rules, {"WithJSON", "WithRawJSON"})
                sc == LastRule(rules, {"WithStatusCode"})
            IN  /\ j # 0 =>
                     /\ new.body = BodyOfJSONRule(rules[j])
                     /\ Hdr_Content_Type \in DOMAIN new.headers
                     /\ new.headers[Hdr_Content_Type] = "application/json"
                /\ new.statusCode = IF sc = 0 THEN old.statusCode ELSE rules[sc].code
     /\ \A h \in Handlers :
          (Completed(h) /\ last'.resp.kind = "stub") =>
            /\ last'.resp.statusCode = stubs[1].response.statusCode
            /\ last'.resp.body = stubs[1].response.body
            /\ stubs[1].response.body # <<>> =>
                 /\ Hdr_Content_Type \in DOMAIN last'.resp.headers
                 /\ last'.resp.headers[Hdr_Content_Type] = "application/json"]_vars

C19_Witness ==
  /\ last.resp.kind = "stub"
  /\ last.resp.statusCode = 201
  /\ last.resp.body = BodyOfJSONRule(WithJSON(Map_john_57))
  /\ Hdr_Content_Type \in DOMAIN last.resp.headers
  /\ last.resp.headers[Hdr_Content_Type] = "application/json"


\* One request at a time against stubs left with defaults: one never given a
\* response, one given a header only, one a status code only, one a body only.
DefaultConfigs ==
  {Config("GET", URLExpr("URL", Str_api_users), <<>>, <<>>),
   Config("POST", URLExpr("URL", Str_api_users), <<>>, <<WithHeader(Hdr_X_Test, "v1")>>),
   Config("GET", URL_page1, <<>>, <<WithStatusCode(201)>>),
   Config("POST", URL_page1, <<>>, <<WithBody(<<"matched request">>)>>)}

InitDefault == InitWith(RegistriesOf(DefaultConfigs))

SpecDefault == InitDefault /\ [][NextHeaders]_vars

\* C20: a stub answers with status 200 unless a status-code rule was applied
\* to it, and with an empty body unless a body rule was.
C20_Defaults ==
  last.resp.kind = "stub" =>
    LET rules == ConfigOf(DefaultConfigs, stubs[StubIndex(last.resp.stub)]).respond
    IN  /\ LastRule(rules, {"WithStatusCode"}) = 0 => last.resp.statusCode = StatusOK
        /\ LastRule(rules, {"WithBody", "WithJSON", "WithRawJSON"}) = 0 =>
             last.resp.body = <<>>

C20_Witness ==
  /\ last.resp.kind = "stub"
  /\ ConfigOf(DefaultConfigs, stubs[StubIndex(last.resp.stub)]).respond = <<>>
  /\ last.resp.statusCode = StatusOK
  /\ last.resp.body = <<>>


\* One request at a time against stubs with and without a delay rule.
DelayConfigs ==
  {Config("GET", URLExpr("URL", Str_api_users), <<>>,
          <<WithStatusCode(201), WithDelay(1200)>>),
   Config("GET", URL_page1, <<>>,
          <<WithDelay(1200), WithBody(<<"matched request">>)>>),
   Config("POST", URLExpr("URL", Str_api_users), <<>>, <<WithStatusCode(201)>>)}

InitDelay == InitWith(RegistriesOf(DelayConfigs))

NextDelay ==
  \/ Traffic(OneAtATime, HeaderRequests)
  \/ \E h \in OneAtATime : Delayed(h)

SpecDelay == InitDelay /\ [][NextDelay]_vars

\* The handler h returns in this step.
Returns(h) == handlers[h].pc # "idle" /\ handlers'[h].pc = "idle"

BodyMapConfigs ==
  {Config("POST", Path_api_users, <<MatchBodyMapFunc("isNil")>>, <<WithStatusCode(201)>>),
   Config("POST", Path_api_users, <<MatchBodyMapFunc("notNilAndEmpty")>>,
          <<WithStatusCode(202)>>),
   Config("POST", Path_api_users, <<MatchBodyMapFunc("nameIsJohn")>>, <<WithStatusCode(203)>>)}

BodyMapRequests ==
  {MkRequestWithBody(m, URL_api_users, b) :
     m \in {"GET", "POST"}, b \in {<<>>, <<"null">>, <<"{", "}">>, Doc_john, Doc_invalid_object}}

InitBodyMap == InitWith(RegistriesOf(BodyMapConfigs))

NextBodyMap == Traffic(OneAtATime, BodyMapRequests)

SpecBodyMap == InitBodyMap /\ [][NextBodyMap]_vars

\* The closure of the body-as-map matcher a trace entry stands for, "" for
\* another matcher.
MapFnAt(e) ==
  LET m == stubs[StubIndex(e.stub)].matchers[e.idx] IN
  IF m.kind = "bodymap" THEN m.fn ELSE ""

\* C22: for a request with an empty body, a body-as-map closure that asks for
\* a non-nil empty map holds, one that asks for a nil map or for a name does
\* not, and the handler does not panic.
C22_EmptyMapForEmptyBody ==
  (last.resp.kind # "none" /\ last.req.Body = <<>>) =>
    /\ last.resp.kind # "panic"
    /\ \A k \in 1..Len(last.trace) :
         MapFnAt(last.trace[k]) # "" =>
           last.trace[k].ok = (MapFnAt(last.trace[k]) = "notNilAndEmpty")

C22_Witness ==
  /\ last.req.Body = <<>>
  /\ last.resp.kind = "stub"
  /\ last.resp.statusCode = 202
  /\ Len(last.trace) > 3


\* Requests handled concurrently while the test registers stubs and clears
\* the registry.
LockRequests == {MkRequest("GET", URL_api_users), MkRequest("POST", URL_api_users)}

NextLock ==
  \/ Clear
  \/ \E m \in Methods, e \in URLExprs : Stub(m, e)
  \/ Traffic(Handlers, LockRequests)

SpecLock == InitWith({<<>>}) /\ [][NextLock]_vars

\* C23: a Stub or Clear call changes the registry only while no handler is
\* between taking the read lock and returning; a handler in that stretch is
\* counted by the lock, whatever the other handlers do.
C23_ReadersExcludeWriters ==
  [][/\ (Clear \/ \E m \in Methods, e \in URLExprs : Stub(m, e)) =>
          \A h \in Handlers : handlers[h].pc = "idle"
     /\ readers' = Cardinality({h \in Handlers : handlers'[h].pc # "idle"})]_vars

C23_Witness ==
  /\ Len(stubs) > 0
  /\ readers = 2
  /\ \A h \in {1, 2} : handlers[h].pc = "range" /\ handlers[h].si = 1 /\ handlers[h].mi = 2


\* One request at a time against stubs with a delay rule, while the test
\* clears the registry and registers stubs.
NextDelayLock ==
  \/ Clear
  \/ \E m \in Methods, e \in URLExprs : Stub(m, e)
  \/ Traffic(OneAtATime, HeaderRequests)
  \/ \E h \in OneAtATime : Delayed(h)

SpecDelayLock == InitDelay /\ [][NextDelayLock]_vars

\* C24: while a handler waits out the delay of the stub that matched, it holds
\* no read lock and a Clear call can go ahead.
C24_UnlockedWhileDelayed ==
  (\E h \in Handlers : handlers[h].pc = "sleep") => (readers = 0 /\ ENABLED Clear)


\* The test runs the setup chain
\* Stub(GET, URL("/api/users")).Match(MatchNoBody).Respond(WithStatusCode(201), WithBody(...))
\* once, call after call, while requests are being sent.
RaceMatchRules == <<MatchNoBody>>
RaceRespondRules == <<WithStatusCode(201), WithBody(<<"matched request">>)>>

RaceRequests ==
  {MkRequest("GET", URL_api_users), MkRequestWithBody("GET", URL_api_users, Doc_john),
   MkRequest("POST", URL_api_users)}

\* The calls of the chain, each enabled when the one before it has returned.
RaceStub == stubs = <<>> /\ nextId = 1 /\ Stub("GET", URLExpr("URL", Str_api_users))

RaceMatch == Len(stubs) = 1 /\ Len(stubs[1].matchers) = 2 /\ Match(1, RaceMatchRules)

RaceRespond ==
  /\ Len(stubs) = 1
  /\ Len(stubs[1].matchers) = 3
  /\ stubs[1].response = newStubResponse
  /\ Respond(1, RaceRespondRules)

NextRace ==
  \/ RaceStub
  \/ RaceMatch
  \/ RaceRespond
  \/ Traffic(OneAtATime, RaceRequests)

SpecRace == InitWith({<<>>}) /\ [][NextRace]_vars

\* C25: a request answered by the stub of the chain went through the Match
\* rule and gets the response the Respond rules describe.
C25_NeverPartial ==
  last.resp.kind = "stub" =>
    /\ last.req.Body = <<>>
    /\ Len(last.trace) = 3
    /\ last.resp.statusCode = 201
    /\ last.resp.body = <<"matched request">>


\* One request at a time, with no setup call in between, against stubs with a
\* pattern, with parameter matchers and with header rules.
FrameConfigs ==
  {Config("GET", Pattern_id, <<MatchParam(Str_id, Str_42)>>, <<WithStatusCode(201)>>),
   Config("GET", URLExpr("URL", Str_api_users), <<>>,
          <<WithHeader(Hdr_X_Test, "v1"), WithHeader(Hdr_X_Other, "w")>>),
   Config("POST", URLExpr("URL", Str_api_users), <<>>,
          <<WithHeader(Hdr_X_Test, "v1"), WithHeader(Hdr_x_test, "v2")>>)}

FrameRequests ==
  {MkRequest("GET", URL_api_users_42), MkRequest("GET", URL_api_users_7),
   MkRequest("GET", URL_api_users), MkRequest("POST", URL_api_users)}

NextFrame == Traffic(OneAtATime, FrameRequests)

SpecFrame == InitWith(RegistriesOf(FrameConfigs)) /\ [][NextFrame]_vars

\* The registry without the stubs' pattern parameters.
Configuration(ss) == [i \in 1..Len(ss) |-> [ss[i] EXCEPT !.patternParams = NoParams]]

\* C26: a step of a handler leaves every stub's matchers and response and the
\* order of the stubs as they were, and a request that was also the one handled
\* just before gets the response written then.
C26_ReadOnlyAndRepeatable ==
  [][/\ Configuration(stubs') = Configuration(stubs)
     /\ \A h \in Handlers :
          (Returns(h) /\ last.req = handlers[h].req) => last'.resp = last.resp]_vars


\* Requests handled concurrently, against a stub with a delay, a stub with a
\* JSON-body matcher, while the test clears the registry; every handler
\* goroutine that can take a step eventually takes it.
LiveRegistry ==
  <<Configured(1, Config("GET", URLExpr("URL", Str_api_users), <<>>,
                         <<WithStatusCode(201), WithDelay(1200)>>)),
    Configured(2, Config("POST", Path_api_users, <<MatchJSONBody(Map_john)>>,
                         <<WithStatusCode(202)>>))>>

LiveRequests ==
  {MkRequest("GET", URL_api_users), MkRequestWithBody("POST", URL_api_users, Doc_john),
   MkRequestWithBody("POST", URL_api_users, Doc_invalid_object)}

NextLive ==
  \/ Clear
  \/ Traffic(Handlers, LiveRequests)
  \/ \E h \in Handlers : Delayed(h)

SpecLive ==
  /\ InitWith({LiveRegistry})
  /\ [][NextLive]_vars
  /\ \A h \in Handlers :
       WF_vars(MatchStep(h)) /\ WF_vars(NoMatch(h)) /\ WF_vars(Delayed(h))

\* C27 as stated: every request a handler has finished with was answered by a
\* stub or by the sentinel.
C27_AlwaysAnswered ==
  last.req # NoRequest => last.resp.kind \in {"stub", "nomatch"}

\* C27, amended: every handler that has received a request returns, having
\* written one stub's response or the sentinel, or nothing at all when a
\* matcher panicked on a malformed body.
C27_AlwaysFinished ==
  /\ \A h \in Handlers : (handlers[h].pc # "idle") ~> (handlers[h].pc = "idle")
  /\ [](last.req # NoRequest =>
          /\ last.resp.kind \in {"stub", "nomatch", "panic"}
          /\ last.resp.kind = "panic" => Malformed(last.req.Body))

C27_Witness ==
  /\ last.resp.kind = "stub"
  /\ last.resp.statusCode = 201
  /\ handlers[1].pc = "sleep"
  /\ handlers[2].pc = "range"


\* Requests with well-formed and malformed bodies handled concurrently against
\* a stub with a JSON-body matcher, while the test clears the registry and
\* registers stubs.
PanicRegistry ==
  <<Configured(1, Config("POST", Path_api_users, <<MatchJSONBody(Map_john)>>,
                         <<WithStatusCode(202)>>))>>

PanicRequests ==
  {MkRequestWithBody("POST", URL_api_users, Doc_john),
   MkRequestWithBody("POST", URL_api_users, Doc_invalid_object)}

NextPanic ==
  \/ Clear
  \/ \E e \in URLExprs : Stub("POST", e)
  \/ Traffic(Handlers, PanicRequests)

SpecPanic == InitWith({PanicRegistry}) /\ [][NextPanic]_vars

\* C28: a handler that ends in a panic gives its read lock back, so that with
\* every handler back no read lock is left and Clear and Stub can go ahead.
C28_PanicUnlocks ==
  /\ [][\A h \in Handlers :
          (Returns(h) /\ last'.resp.kind = "panic") => readers' = readers - 1]_vars
  /\ []((\A h \in Handlers : handlers[h].pc = "idle") => (readers = 0 /\ ENABLED Clear))

C28_Witness ==
  /\ last.resp.kind = "panic"
  /\ \A h \in Handlers : handlers[h].pc = "idle"
  /\ readers = 0
  /\ Len(stubs) = 2


\* The test registers one stub and hands it response rules of which the second
\* fails, when it is applied or when it is built, while requests are sent one
\* at a time.
FailingRespondRules ==
  {<<WithStatusCode(202), WithJSON(GoChan), WithBody(<<"matched request">>)>>,
   <<WithStatusCode(201), WithRawJSON(Doc_invalid_object), WithBody(<<"matched request">>)>>,
   <<WithStatusCode(404), WithBodyReader(FailingReader), WithHeader(Hdr_X_Test, "v")>>}

NextFailing ==
  \/ RaceStub
  \/ \E rules \in FailingRespondRules : Respond(1, rules)
  \/ Traffic(OneAtATime, OneStubRequests)

SpecFailing == InitWith({<<>>}) /\ [][NextFailing]_vars

\* A request for the method and URL of the one stub is answered by it.
AnsweredByStub ==
  \A h \in Handlers :
    (Returns(h) /\ handlers[h].req = MkRequest("GET", URL_api_users) /\ Len(stubs) = 1) =>
      /\ last'.resp.kind = "stub"
      /\ last'.resp.statusCode = stubs[1].response.statusCode
      /\ last'.resp.body = stubs[1].response.body

\* C29 as stated: whichever way the second rule fails, the Respond call leaves
\* the stub in the registry with the first rule applied and the third not.
C29_FirstRuleKept ==
  [][/\ \A rules \in FailingRespondRules :
          Respond(1, rules) =>
            /\ Len(stubs') = Len(stubs)
            /\ ret'.op = "Respond"
            /\ stubs'[1].response =
                 [stubs[1].response EXCEPT !.statusCode = rules[1].code]
     /\ AnsweredByStub]_vars

\* C29, amended: a rule that fails while it is applied leaves the first rule
\* applied and the third not; a rule that fails while it is built leaves the
\* response as it was; either way the stub stays and answers.
C29_NoRollback ==
  [][/\ \A rules \in FailingRespondRules :
          Respond(1, rules) =>
            /\ Len(stubs') = Len(stubs)
            /\ ret'.op = "Respond"
            /\ stubs'[1].response =
                 IF rules[2].rule = "panic" THEN stubs[1].response
                 ELSE [stubs[1].response EXCEPT !.statusCode = rules[1].code]
     /\ AnsweredByStub]_vars

C29_Witness ==
  /\ ret = Returned("Respond", "WithJSON err: body marshal failed")
  /\ last.resp.kind = "stub"
  /\ last.resp.statusCode = 202
  /\ last.resp.body = <<>>


\* One request at a time against stubs registered with a path template of one
\* placeholder and with a URL template of two.
Str_kind == <<"k", "i", "n", "d">>
Str_orders == <<"/", "o", "r", "d", "e", "r", "s">>
Str_v1 == <<"/", "v", "1">>

Pattern_kind_id ==
  URLExpr("URLPattern", Str_api \o <<"/", "{">> \o Str_kind \o <<"}", "/", "{">> \o Str_id \o <<"}">>)

TemplateConfigs ==
  {Config("GET", Pattern_id, <<>>, <<WithStatusCode(201)>>),
   Config("GET", Pattern_kind_id, <<>>, <<WithStatusCode(202)>>)}

TemplateRequests ==
  {MkRequest("GET", URL_api_users_42), MkRequest("GET", URL_api_users_7),
   MkRequest("GET", MkURL(Str_api_users_slash, <<>>, FALSE)),
   MkRequest("GET", MkURL(Str_api_users \o <<"/">> \o Str_42 \o Str_orders, <<>>, FALSE)),
   MkRequest("GET", MkURL(Str_v1 \o Str_api_users \o <<"/">> \o Str_42, <<>>, FALSE)),
   MkRequest("GET", MkURL(Str_api_users \o <<"/">> \o Str_42, Str_page1, FALSE))}

NextTemplate == Traffic(OneAtATime, TemplateRequests)

SpecTemplate == InitWith(RegistriesOf(TemplateConfigs)) /\ [][NextTemplate]_vars

\* The requests for /api/users/42 and /api/users/7, and what follows
\* /api/users/ in them.
UserPaths == {Str_api_users \o <<"/">> \o id : id \in {Str_42, Str_7}}
UserOf(path) == SubSeq(path, Len(Str_api_users) + 2, Len(path))

\* C30: the path template /api/users/{id} holds for the paths /api/users/42
\* and /api/users/7 only, the URL template /api/{kind}/{id} for these two
\* without a query only; the stub that answers holds the captured text under
\* the placeholder names, each name with the text at its place.
C30_AnchoredCaptures ==
  /\ \A k \in 1..Len(last.trace) :
       LET e == last.trace[k]
           um == stubs[StubIndex(e.stub)].matchers[2].um
       IN  e.idx = 2 =>
             e.ok = /\ last.req.URL.Path \in UserPaths
                    /\ (um.kind = "URLPattern" => last.req.URL.RawQuery = <<>>)
  /\ last.resp.kind = "stub" =>
       LET st == stubs[StubIndex(last.resp.stub)]
           id == UserOf(last.req.URL.Path)
       IN  IF st.matchers[2].um.kind = "PathPattern"
           THEN /\ st.matchers[2].um.paramKeys = <<Str_id>>
                /\ st.patternParams = [n \in {Str_id} |-> id]
           ELSE /\ st.matchers[2].um.paramKeys = <<Str_kind, Str_id>>
                /\ st.patternParams =
                     [n \in {Str_kind, Str_id} |-> IF n = Str_id THEN id ELSE Tail(Str_users)]

C30_Witness ==
  /\ last.resp.kind = "stub"
  /\ last.req.URL.Path = Str_api_users \o <<"/">> \o Str_42
  /\ last.req.URL.RawQuery = Str_page1
  /\ Len(last.trace) = 4
  /\ stubs[StubIndex(last.resp.stub)].patternParams = [n \in {Str_id} |-> Str_42]


====
